---- MODULE Spec2Model ----
(***************************************************************************)
(* Model of programs/associated-token-account (the Create and              *)
(* CreateIdempotent instruction builders) and of the token program's       *)
(* Mint, Account and Multisig state-record codecs.                         *)
(*                                                                         *)
(* Public keys are small integers, 0 being the all-zero key.  An           *)
(* AccountMetaSlice is a function over the Go indexes 0..6 whose values    *)
(* are NilMeta (a nil *AccountMeta) or an AccountMeta record.              *)
(***************************************************************************)
EXTENDS Integers, Sequences, FiniteSets, TLC

\* ------------------------------------------------------------------ bounds
\* user-supplied keys are 0..MaxKey
MaxKey == 2
\* buffers handed to a decoder carry up to MaxExtra bytes after the record
MaxExtra == 2
\* the presence flags' low byte and the one-byte fields range over
\* 0..MaxSmall (and 255)
MaxSmall == 2

\* ------------------------------------------------- well-known constant keys
ZeroKey == 0
\* the system program's id is the all-zero key
SystemProgramID == ZeroKey
TokenProgramID == 13
SysVarRentPubkey == 14
\* the associated-token-account program: the owner of the derived addresses
ProgramID == 15

Instruction_Create == 0
Instruction_CreateIdempotent == 1

Keys == 0..MaxKey

\* ------------------------------------------------------------ AccountMeta
NilMeta == [isNil |-> TRUE]

Meta(pubKey) == [isNil |-> FALSE, PublicKey |-> pubKey, IsWritable |-> FALSE, IsSigner |-> FALSE]

WRITE(meta) == [meta EXCEPT !.IsWritable = TRUE]

SIGNER(meta) == [meta EXCEPT !.IsSigner = TRUE]

IsZero(pubKey) == pubKey = ZeroKey

\* --------------------------------------------------- address derivation
\* derive(seeds, programID) -> (address, bump, found): deterministic; one
\* seed combination stands for the inputs for which no bump is found, where
\* the address returned is the zero key.
derive(seeds, programID) ==
    IF seeds = <<MaxKey, MaxKey, MaxKey>>
    THEN [address |-> ZeroKey, bump |-> 0, found |-> FALSE]
    ELSE [address |-> 1000 + 4096 * programID + 256 * seeds[1] + 16 * seeds[2] + seeds[3],
          bump |-> 255, found |-> TRUE]

FindAssociatedTokenAddress(wallet, mint, tokenProgramID) ==
    derive(<<wallet, tokenProgramID, mint>>, ProgramID)

\* ------------------------------------------------------- results of calls
NoErr == [isNil |-> TRUE]

NoInst == [isNil |-> TRUE]

MissingAccountRole(accIndex) == [isNil |-> FALSE, kind |-> "MissingAccountRole", index |-> accIndex]

\* what one call gave back: it panicked, or it returned inst / err / out
Returned(i, e, o) == [panic |-> FALSE, inst |-> i, err |-> e, out |-> o]

Panicked == [panic |-> TRUE, inst |-> NoInst, err |-> NoErr, out |-> <<>>]

\* a call's effect: the receiver's slice afterwards and what it gave back
Effect(s, r) == [slice |-> s, res |-> r]

\* variant: the scan reports the last nil slot instead of the first
FirstNil_LastReported(slice) ==
    IF \E i \in 0..6 : slice[i] = NilMeta
    THEN CHOOSE i \in 0..6 : slice[i] = NilMeta /\ \A j \in (i + 1)..6 : slice[j] # NilMeta
    ELSE 7

\* the first nil slot of a slice, 7 when there is none
FirstNil(slice) ==
    IF \E i \in 0..6 : slice[i] = NilMeta
    THEN CHOOSE i \in 0..6 : slice[i] = NilMeta /\ \A j \in 0..(i - 1) : slice[j] # NilMeta
    ELSE 7

\* ------------------------------------------------------------------ Create
NewCreateInstructionBuilder ==
    [i \in 0..6 |-> CASE i = 4 -> Meta(SystemProgramID)
                      [] i = 5 -> Meta(TokenProgramID)
                      [] i = 6 -> Meta(SysVarRentPubkey)
                      [] OTHER -> NilMeta]

CreateSetPayer(slice, payer) == [slice EXCEPT ![0] = SIGNER(WRITE(Meta(payer)))]

CreateSetAssociatedTokenAccount(slice, associatedTokenAccount) ==
    [slice EXCEPT ![1] = WRITE(Meta(associatedTokenAccount))]

CreateSetWallet(slice, wallet) == [slice EXCEPT ![2] = Meta(wallet)]

CreateSetMint(slice, mint) == [slice EXCEPT ![3] = Meta(mint)]

CreateSetTokenProgramID(slice, tokenProgramID) == [slice EXCEPT ![5] = Meta(tokenProgramID)]

CreateGetWallet(slice) == slice[2]

CreateGetMint(slice) == slice[3]

CreateGetTokenProgramID(slice) == slice[5]

\* variant: mint and token program passed to the derivation as seeds in the
\* order (wallet, mint, tokenProgram)
CreateBuild_SeedsInArgumentOrder(slice) ==
    IF slice[1] = NilMeta \/ IsZero(slice[1].PublicKey)
    THEN IF \/ CreateGetWallet(slice) = NilMeta
            \/ CreateGetMint(slice) = NilMeta
            \/ CreateGetTokenProgramID(slice) = NilMeta
         THEN Effect(slice, Panicked)
         ELSE LET associatedTokenAddress ==
                      FindAssociatedTokenAddress(CreateGetWallet(slice).PublicKey,
                                                 CreateGetTokenProgramID(slice).PublicKey,
                                                 CreateGetMint(slice).PublicKey).address
              IN Effect(CreateSetAssociatedTokenAccount(slice, associatedTokenAddress),
                        Returned([isNil |-> FALSE, TypeID |-> Instruction_Create, Impl |-> "Create"],
                                 NoErr, <<>>))
    ELSE Effect(slice, Returned([isNil |-> FALSE, TypeID |-> Instruction_Create, Impl |-> "Create"],
                                NoErr, <<>>))

\* Build has a value receiver, but the copy shares the slice's backing
\* array: the derived address lands in the builder's own slot 1, and the
\* instruction's Impl refers to that same array.  Reading .PublicKey of a
\* nil getter result is a nil dereference: the call panics before it wrote.
CreateBuild(slice) ==
    IF slice[1] = NilMeta \/ IsZero(slice[1].PublicKey)
    THEN IF \/ CreateGetWallet(slice) = NilMeta
            \/ CreateGetMint(slice) = NilMeta
            \/ CreateGetTokenProgramID(slice) = NilMeta
         THEN Effect(slice, Panicked)
         ELSE LET associatedTokenAddress ==
                      FindAssociatedTokenAddress(CreateGetWallet(slice).PublicKey,
                                                 CreateGetMint(slice).PublicKey,
                                                 CreateGetTokenProgramID(slice).PublicKey).address
              IN Effect(CreateSetAssociatedTokenAccount(slice, associatedTokenAddress),
                        Returned([isNil |-> FALSE, TypeID |-> Instruction_Create, Impl |-> "Create"],
                                 NoErr, <<>>))
    ELSE Effect(slice, Returned([isNil |-> FALSE, TypeID |-> Instruction_Create, Impl |-> "Create"],
                                NoErr, <<>>))

CreateValidate(slice) ==
    IF slice[1] = NilMeta \/ IsZero(slice[1].PublicKey)
    THEN IF \/ CreateGetWallet(slice) = NilMeta
            \/ CreateGetMint(slice) = NilMeta
            \/ CreateGetTokenProgramID(slice) = NilMeta
         THEN Effect(slice, Panicked)
         ELSE LET associatedTokenAddress ==
                      FindAssociatedTokenAddress(CreateGetWallet(slice).PublicKey,
                                                 CreateGetMint(slice).PublicKey,
                                                 CreateGetTokenProgramID(slice).PublicKey).address
                  derived == CreateSetAssociatedTokenAccount(slice, associatedTokenAddress)
              IN IF FirstNil(derived) < 7
                 THEN Effect(derived, Returned(NoInst, MissingAccountRole(FirstNil(derived)), <<>>))
                 ELSE Effect(derived, Returned(NoInst, NoErr, <<>>))
    ELSE IF FirstNil(slice) < 7
         THEN Effect(slice, Returned(NoInst, MissingAccountRole(FirstNil(slice)), <<>>))
         ELSE Effect(slice, Returned(NoInst, NoErr, <<>>))

CreateValidateAndBuild(slice) ==
    LET v == CreateValidate(slice)
    IN IF v.res.panic
       THEN v
       ELSE IF v.res.err # NoErr
            THEN Effect(v.slice, Returned(NoInst, v.res.err, <<>>))
            ELSE CreateBuild(v.slice)

\* encoder.WriteBytes([]byte{}, false): nothing is written
CreateMarshalWithEncoder(slice) == Effect(slice, Returned(NoInst, NoErr, <<>>))

\* variant: the wallet and the mint land in each other's slot
NewCreateInstruction_WalletMintSwapped(payer, walletAddress, splTokenMintAddress, tokenProgramID) ==
    CreateSetTokenProgramID(
        CreateSetMint(
            CreateSetWallet(
                CreateSetPayer(NewCreateInstructionBuilder, payer),
                splTokenMintAddress),
            walletAddress),
        tokenProgramID)

NewCreateInstruction(payer, walletAddress, splTokenMintAddress, tokenProgramID) ==
    CreateSetTokenProgramID(
        CreateSetMint(
            CreateSetWallet(
                CreateSetPayer(NewCreateInstructionBuilder, payer),
                walletAddress),
            splTokenMintAddress),
        tokenProgramID)

\* -------------------------------------------------------- CreateIdempotent
NewCreateIdempotentInstructionBuilder ==
    [i \in 0..6 |-> CASE i = 4 -> Meta(SystemProgramID)
                      [] i = 5 -> Meta(TokenProgramID)
                      [] i = 6 -> Meta(SysVarRentPubkey)
                      [] OTHER -> NilMeta]

CreateIdempotentSetPayer(slice, payer) == [slice EXCEPT ![0] = SIGNER(WRITE(Meta(payer)))]

CreateIdempotentSetAssociatedTokenAccount(slice, associatedTokenAccount) ==
    [slice EXCEPT ![1] = WRITE(Meta(associatedTokenAccount))]

\* variant: the idempotent builder marks the wallet writable
CreateIdempotentSetWallet_Writable(slice, wallet) == [slice EXCEPT ![2] = WRITE(Meta(wallet))]

CreateIdempotentSetWallet(slice, wallet) == [slice EXCEPT ![2] = Meta(wallet)]

CreateIdempotentSetMint(slice, mint) == [slice EXCEPT ![3] = Meta(mint)]

CreateIdempotentSetTokenProgramID(slice, tokenProgramID) == [slice EXCEPT ![5] = Meta(tokenProgramID)]

CreateIdempotentGetWallet(slice) == slice[2]

CreateIdempotentGetMint(slice) == slice[3]

CreateIdempotentGetTokenProgramID(slice) == slice[5]

\* variant: Build derives slot 1 whether or not it already holds an address
CreateIdempotentBuild_AlwaysDerives(slice) ==
    IF \/ CreateIdempotentGetWallet(slice) = NilMeta
       \/ CreateIdempotentGetMint(slice) = NilMeta
       \/ CreateIdempotentGetTokenProgramID(slice) = NilMeta
    THEN Effect(slice, Panicked)
    ELSE LET associatedTokenAddress ==
                 FindAssociatedTokenAddress(CreateIdempotentGetWallet(slice).PublicKey,
                                            CreateIdempotentGetMint(slice).PublicKey,
                                            CreateIdempotentGetTokenProgramID(slice).PublicKey).address
         IN Effect(CreateIdempotentSetAssociatedTokenAccount(slice, associatedTokenAddress),
                   Returned([isNil |-> FALSE, TypeID |-> Instruction_CreateIdempotent, Impl |-> "CreateIdempotent"],
                            NoErr, <<>>))

CreateIdempotentBuild(slice) ==
    IF slice[1] = NilMeta \/ IsZero(slice[1].PublicKey)
    THEN IF \/ CreateIdempotentGetWallet(slice) = NilMeta
            \/ CreateIdempotentGetMint(slice) = NilMeta
            \/ CreateIdempotentGetTokenProgramID(slice) = NilMeta
         THEN Effect(slice, Panicked)
         ELSE LET associatedTokenAddress ==
                      FindAssociatedTokenAddress(CreateIdempotentGetWallet(slice).PublicKey,
                                                 CreateIdempotentGetMint(slice).PublicKey,
                                                 CreateIdempotentGetTokenProgramID(slice).PublicKey).address
              IN Effect(CreateIdempotentSetAssociatedTokenAccount(slice, associatedTokenAddress),
                        Returned([isNil |-> FALSE, TypeID |-> Instruction_CreateIdempotent, Impl |-> "CreateIdempotent"],
                                 NoErr, <<>>))
    ELSE Effect(slice, Returned([isNil |-> FALSE, TypeID |-> Instruction_CreateIdempotent, Impl |-> "CreateIdempotent"],
                                NoErr, <<>>))

CreateIdempotentValidate(slice) ==
    IF slice[1] = NilMeta \/ IsZero(slice[1].PublicKey)
    THEN IF \/ CreateIdempotentGetWallet(slice) = NilMeta
            \/ CreateIdempotentGetMint(slice) = NilMeta
            \/ CreateIdempotentGetTokenProgramID(slice) = NilMeta
         THEN Effect(slice, Panicked)
         ELSE LET associatedTokenAddress ==
                      FindAssociatedTokenAddress(CreateIdempotentGetWallet(slice).PublicKey,
                                                 CreateIdempotentGetMint(slice).PublicKey,
                                                 CreateIdempotentGetTokenProgramID(slice).PublicKey).address
                  derived == CreateIdempotentSetAssociatedTokenAccount(slice, associatedTokenAddress)
              IN IF FirstNil(derived) < 7
                 THEN Effect(derived, Returned(NoInst, MissingAccountRole(FirstNil(derived)), <<>>))
                 ELSE Effect(derived, Returned(NoInst, NoErr, <<>>))
    ELSE IF FirstNil(slice) < 7
         THEN Effect(slice, Returned(NoInst, MissingAccountRole(FirstNil(slice)), <<>>))
         ELSE Effect(slice, Returned(NoInst, NoErr, <<>>))

CreateIdempotentValidateAndBuild(slice) ==
    LET v == CreateIdempotentValidate(slice)
    IN IF v.res.panic
       THEN v
       ELSE IF v.res.err # NoErr
            THEN Effect(v.slice, Returned(NoInst, v.res.err, <<>>))
            ELSE CreateIdempotentBuild(v.slice)

\* encoder.WriteBytes([]byte{}, false): nothing is written
CreateIdempotentMarshalWithEncoder(slice) == Effect(slice, Returned(NoInst, NoErr, <<>>))

NewCreateIdempotentInstruction(payer, walletAddress, splTokenMintAddress, tokenProgramID) ==
    CreateIdempotentSetTokenProgramID(
        CreateIdempotentSetMint(
            CreateIdempotentSetWallet(
                CreateIdempotentSetPayer(NewCreateIdempotentInstructionBuilder, payer),
                walletAddress),
            splTokenMintAddress),
        tokenProgramID)


\* ================================================================ codec
\* The token program's state records.  A byte is an integer 0..255 and a
\* buffer a sequence of bytes.  A uint32 / uint64 value is its base-256
\* numeral, most significant digit first (the values do not fit the model
\* checker's integers); a PublicKey is its 32 bytes.  A nil pointer is NilPtr.
MAX_SIGNERS == 11

NilPtr == [isNil |-> TRUE]

ToPointer(v) == [isNil |-> FALSE, v |-> v]

Reverse(s) == [i \in 1..Len(s) |-> s[Len(s) + 1 - i]]

Zeros(n) == [i \in 1..n |-> 0]

\* the uint32 / uint64 whose value is the small number n
Uint32(n) == <<0, 0, 0, n>>

Uint64(n) == <<0, 0, 0, 0, 0, 0, 0, n>>

\* ------------------------------------------------------- primitive codec
UnexpectedEOF(pos) == [isNil |-> FALSE, kind |-> "UnexpectedEOF", at |-> pos]

\* result of a read: the error, the value read and the cursor afterwards
ReadOk(v, pos) == [err |-> NoErr, v |-> v, pos |-> pos]

ReadFail(pos) == [err |-> UnexpectedEOF(pos), v |-> <<>>, pos |-> pos]

Remaining(data, pos) == Len(data) - pos

ReadNBytes(data, pos, n) ==
    IF Remaining(data, pos) < n
    THEN ReadFail(pos)
    ELSE ReadOk(SubSeq(data, pos + 1, pos + n), pos + n)

ReadUint8(data, pos) ==
    IF Remaining(data, pos) < 1
    THEN ReadFail(pos)
    ELSE ReadOk(data[pos + 1], pos + 1)

ReadBool(data, pos) ==
    IF Remaining(data, pos) < 1
    THEN ReadFail(pos)
    ELSE ReadOk(data[pos + 1] # 0, pos + 1)

\* little-endian: the first byte read is the least significant digit
ReadUint32(data, pos) ==
    IF Remaining(data, pos) < 4
    THEN ReadFail(pos)
    ELSE ReadOk(Reverse(SubSeq(data, pos + 1, pos + 4)), pos + 4)

ReadUint64(data, pos) ==
    IF Remaining(data, pos) < 8
    THEN ReadFail(pos)
    ELSE ReadOk(Reverse(SubSeq(data, pos + 1, pos + 8)), pos + 8)

PublicKeyFromBytes(v) == v

\* the writes give the bytes they append; the sink accepts every write
WriteBytes(b) == b

WriteUint8(v) == <<v>>

WriteBool(v) == IF v THEN <<1>> ELSE <<0>>

WriteUint32(v) == Reverse(v)

WriteUint64(v) == Reverse(v)

\* ------------------------------------------------- the blocks of a decode
\* A decode is a sequence of blocks, each a read and an assignment to one
\* field of the receiver; st = [err, rec, pos] is the error returned so far,
\* the receiver and the cursor.  A block after a return does nothing.
\* variant: the payload slot of an absent field is not read
OptionalPublicKeyBlock_NoDiscard(st, data, field) ==
    IF st.err # NoErr THEN st
    ELSE LET flag == ReadUint32(data, st.pos)
         IN IF flag.err # NoErr
            THEN [st EXCEPT !.err = flag.err]
            ELSE IF flag.v = Uint32(1)
                 THEN LET key == ReadNBytes(data, flag.pos, 32)
                      IN IF key.err # NoErr
                         THEN [st EXCEPT !.err = key.err, !.pos = flag.pos]
                         ELSE [err |-> NoErr,
                               rec |-> [st.rec EXCEPT ![field] = ToPointer(PublicKeyFromBytes(key.v))],
                               pos |-> key.pos]
                 ELSE [st EXCEPT !.pos = flag.pos]

\* variant: the error of the read that discards an absent field's slot is
\* dropped
OptionalPublicKeyBlock_DiscardErrorIgnored(st, data, field) ==
    IF st.err # NoErr THEN st
    ELSE LET flag == ReadUint32(data, st.pos)
         IN IF flag.err # NoErr
            THEN [st EXCEPT !.err = flag.err]
            ELSE LET key == ReadNBytes(data, flag.pos, 32)
                 IN IF flag.v = Uint32(1)
                    THEN IF key.err # NoErr
                         THEN [st EXCEPT !.err = key.err, !.pos = flag.pos]
                         ELSE [err |-> NoErr,
                               rec |-> [st.rec EXCEPT ![field] = ToPointer(PublicKeyFromBytes(key.v))],
                               pos |-> key.pos]
                    ELSE [st EXCEPT !.pos = key.pos]

\* { v, err := dec.ReadUint32(LE); if v == 1 { ReadNBytes(32); field = key }
\*   else { ReadNBytes(32) } }: the field is assigned only when the flag is 1
OptionalPublicKeyBlock(st, data, field) ==
    IF st.err # NoErr THEN st
    ELSE LET flag == ReadUint32(data, st.pos)
         IN IF flag.err # NoErr
            THEN [st EXCEPT !.err = flag.err]
            ELSE LET key == ReadNBytes(data, flag.pos, 32)
                 IN IF key.err # NoErr
                    THEN [st EXCEPT !.err = key.err, !.pos = flag.pos]
                    ELSE IF flag.v = Uint32(1)
                         THEN [err |-> NoErr,
                               rec |-> [st.rec EXCEPT ![field] = ToPointer(PublicKeyFromBytes(key.v))],
                               pos |-> key.pos]
                         ELSE [st EXCEPT !.pos = key.pos]

\* variant: a present value of 0 is taken for an absent one
OptionalUint64Block_ZeroIsAbsent(st, data, field) ==
    IF st.err # NoErr THEN st
    ELSE LET flag == ReadUint32(data, st.pos)
         IN IF flag.err # NoErr
            THEN [st EXCEPT !.err = flag.err]
            ELSE LET val == ReadUint64(data, flag.pos)
                 IN IF val.err # NoErr
                    THEN [st EXCEPT !.err = val.err, !.pos = flag.pos]
                    ELSE IF flag.v = Uint32(1) /\ val.v # Uint64(0)
                         THEN [err |-> NoErr,
                               rec |-> [st.rec EXCEPT ![field] = ToPointer(val.v)],
                               pos |-> val.pos]
                         ELSE [st EXCEPT !.pos = val.pos]

OptionalUint64Block(st, data, field) ==
    IF st.err # NoErr THEN st
    ELSE LET flag == ReadUint32(data, st.pos)
         IN IF flag.err # NoErr
            THEN [st EXCEPT !.err = flag.err]
            ELSE LET val == ReadUint64(data, flag.pos)
                 IN IF val.err # NoErr
                    THEN [st EXCEPT !.err = val.err, !.pos = flag.pos]
                    ELSE IF flag.v = Uint32(1)
                         THEN [err |-> NoErr,
                               rec |-> [st.rec EXCEPT ![field] = ToPointer(val.v)],
                               pos |-> val.pos]
                         ELSE [st EXCEPT !.pos = val.pos]

\* { v, err := <read>; if err != nil { return err }; field = v }
Assign(st, r, field) ==
    IF r.err # NoErr
    THEN [st EXCEPT !.err = r.err]
    ELSE [err |-> NoErr, rec |-> [st.rec EXCEPT ![field] = r.v], pos |-> r.pos]

PublicKeyBlock(st, data, field) ==
    IF st.err # NoErr THEN st ELSE Assign(st, ReadNBytes(data, st.pos, 32), field)

Uint64Block(st, data, field) ==
    IF st.err # NoErr THEN st ELSE Assign(st, ReadUint64(data, st.pos), field)

Uint8Block(st, data, field) ==
    IF st.err # NoErr THEN st ELSE Assign(st, ReadUint8(data, st.pos), field)

BoolBlock(st, data, field) ==
    IF st.err # NoErr THEN st ELSE Assign(st, ReadBool(data, st.pos), field)

\* ------------------------------------------------- the blocks of an encode
\* if p == nil { WriteUint32(0); WriteBytes(empty[:]) }
\* else { WriteUint32(1); WriteBytes(p[:]) }
WriteOptionalPublicKey(p) ==
    IF p = NilPtr
    THEN WriteUint32(Uint32(0)) \o WriteBytes(Zeros(32))
    ELSE WriteUint32(Uint32(1)) \o WriteBytes(p.v)

\* variant: an absent value is written as its flag alone
WriteOptionalUint64_Elided(p) ==
    IF p = NilPtr
    THEN WriteUint32(Uint32(0))
    ELSE WriteUint32(Uint32(1)) \o WriteUint64(p.v)

WriteOptionalUint64(p) ==
    IF p = NilPtr
    THEN WriteUint32(Uint32(0)) \o WriteUint64(Uint64(0))
    ELSE WriteUint32(Uint32(1)) \o WriteUint64(p.v)

\* -------------------------------------------------------------------- Mint
ZeroMint ==
    [MintAuthority |-> NilPtr, Supply |-> Uint64(0), Decimals |-> 0,
     IsInitialized |-> FALSE, FreezeAuthority |-> NilPtr]

MintUnmarshalWithDecoder(mint, data, pos) ==
    LET s0 == [err |-> NoErr, rec |-> mint, pos |-> pos]
        s1 == OptionalPublicKeyBlock(s0, data, "MintAuthority")
        s2 == Uint64Block(s1, data, "Supply")
        s3 == Uint8Block(s2, data, "Decimals")
        s4 == BoolBlock(s3, data, "IsInitialized")
        s5 == OptionalPublicKeyBlock(s4, data, "FreezeAuthority")
    IN s5

\* variant: IsInitialized is written before Decimals
MintMarshalWithEncoder_BoolBeforeDecimals(mint) ==
    WriteOptionalPublicKey(mint.MintAuthority)
        \o WriteUint64(mint.Supply)
        \o WriteBool(mint.IsInitialized)
        \o WriteUint8(mint.Decimals)
        \o WriteOptionalPublicKey(mint.FreezeAuthority)

MintMarshalWithEncoder(mint) ==
    WriteOptionalPublicKey(mint.MintAuthority)
        \o WriteUint64(mint.Supply)
        \o WriteUint8(mint.Decimals)
        \o WriteBool(mint.IsInitialized)
        \o WriteOptionalPublicKey(mint.FreezeAuthority)

\* ----------------------------------------------------------------- Account
ZeroAccount ==
    [Mint |-> Zeros(32), Owner |-> Zeros(32), Amount |-> Uint64(0), Delegate |-> NilPtr,
     State |-> 0, IsNative |-> NilPtr, DelegatedAmount |-> Uint64(0), CloseAuthority |-> NilPtr]

AccountUnmarshalWithDecoder(mint, data, pos) ==
    LET s0 == [err |-> NoErr, rec |-> mint, pos |-> pos]
        s1 == PublicKeyBlock(s0, data, "Mint")
        s2 == PublicKeyBlock(s1, data, "Owner")
        s3 == Uint64Block(s2, data, "Amount")
        s4 == OptionalPublicKeyBlock(s3, data, "Delegate")
        s5 == Uint8Block(s4, data, "State")
        s6 == OptionalUint64Block(s5, data, "IsNative")
        s7 == Uint64Block(s6, data, "DelegatedAmount")
        s8 == OptionalPublicKeyBlock(s7, data, "CloseAuthority")
    IN s8

AccountMarshalWithEncoder(mint) ==
    WriteBytes(mint.Mint)
        \o WriteBytes(mint.Owner)
        \o WriteUint64(mint.Amount)
        \o WriteOptionalPublicKey(mint.Delegate)
        \o WriteUint8(mint.State)
        \o WriteOptionalUint64(mint.IsNative)
        \o WriteUint64(mint.DelegatedAmount)
        \o WriteOptionalPublicKey(mint.CloseAuthority)

\* ---------------------------------------------------------------- Multisig
ZeroMultisig ==
    [M |-> 0, N |-> 0, IsInitialized |-> FALSE, Signers |-> [i \in 1..MAX_SIGNERS |-> Zeros(32)]]

\* decoder.Decode(&obj.Signers): the MAX_SIGNERS keys one after the other,
\* without a length prefix; k keys are still to be read
RECURSIVE DecodeSigners(_, _, _)
DecodeSigners(st, data, k) ==
    IF k = 0 \/ st.err # NoErr THEN st
    ELSE LET key == ReadNBytes(data, st.pos, 32)
         IN IF key.err # NoErr
            THEN [st EXCEPT !.err = key.err]
            ELSE DecodeSigners([err |-> NoErr,
                                rec |-> [st.rec EXCEPT !.Signers[MAX_SIGNERS + 1 - k] = key.v],
                                pos |-> key.pos],
                               data, k - 1)

MultisigUnmarshalWithDecoder(obj, data, pos) ==
    LET s0 == [err |-> NoErr, rec |-> obj, pos |-> pos]
        s1 == Uint8Block(s0, data, "M")
        s2 == Uint8Block(s1, data, "N")
        s3 == BoolBlock(s2, data, "IsInitialized")
        s4 == DecodeSigners(s3, data, MAX_SIGNERS)
    IN s4

RECURSIVE EncodeSigners(_, _)
EncodeSigners(signers, k) ==
    IF k = 0 THEN <<>>
    ELSE WriteBytes(signers[MAX_SIGNERS + 1 - k]) \o EncodeSigners(signers, k - 1)

MultisigMarshalWithEncoder(obj) ==
    WriteUint8(obj.M)
        \o WriteUint8(obj.N)
        \o WriteBool(obj.IsInitialized)
        \o EncodeSigners(obj.Signers, MAX_SIGNERS)

\* ------------------------------------------------------------ the builders
\* One Create builder and one CreateIdempotent builder are driven by the
\* same calls with the same arguments.
VARIABLES
    create,     \* the Create builder's AccountMetaSlice
    idem,       \* the CreateIdempotent builder's AccountMetaSlice
    call,       \* the last call: its name and arguments
    ret,        \* what the last call gave back, per builder
    aborted,    \* a call panicked: the program is gone
    held,       \* the instruction the caller got last from each builder
    kind,       \* the record type a codec run is about ("none": no codec run)
    data,       \* the decoder's buffer
    pos,        \* the decoder's cursor
    rec,        \* the record the caller holds
    out,        \* the bytes the encoder wrote
    cerr,       \* the error the last decode returned
    orig,       \* the record the caller started from
    pc          \* where the codec run is

builderVars == <<create, idem, call, ret, aborted, held>>

codecVars == <<kind, data, pos, rec, out, cerr, orig, pc>>

vars == <<create, idem, call, ret, aborted, held, kind, data, pos, rec, out, cerr, orig, pc>>

Variants == {"Create", "CreateIdempotent"}

\* no codec run
CodecIdle ==
    /\ kind = "none"
    /\ data = <<>>
    /\ pos = 0
    /\ rec = NilPtr
    /\ out = <<>>
    /\ cerr = NoErr
    /\ orig = NilPtr
    /\ pc = "idle"

\* A behaviour starts from a freshly constructed pair of builders: the empty
\* one of New...InstructionBuilder(), or the one New...Instruction(payer,
\* walletAddress, splTokenMintAddress, tokenProgramID) returns.
Init ==
    /\ \/ /\ create = NewCreateInstructionBuilder
          /\ idem = NewCreateIdempotentInstructionBuilder
          /\ call = [op |-> "NewInstructionBuilder", args |-> <<>>]
       \/ \E payer \in Keys, wallet \in Keys, mint \in Keys, tokenProgramID \in Keys :
             /\ create = NewCreateInstruction(payer, wallet, mint, tokenProgramID)
             /\ idem = NewCreateIdempotentInstruction(payer, wallet, mint, tokenProgramID)
             /\ call = [op |-> "NewInstruction", args |-> <<payer, wallet, mint, tokenProgramID>>]
    /\ ret = [v \in Variants |-> Returned(NoInst, NoErr, <<>>)]
    /\ aborted = FALSE
    /\ held = [v \in Variants |-> NoInst]
    /\ CodecIdle

\* both builders take the effects c and i of the call op(args)
Apply(op, args, c, i) ==
    /\ ~aborted
    /\ create' = c.slice
    /\ idem' = i.slice
    /\ call' = [op |-> op, args |-> args]
    /\ ret' = [v \in Variants |-> IF v = "Create" THEN c.res ELSE i.res]
    /\ aborted' = (c.res.panic \/ i.res.panic)
    /\ held' = [v \in Variants |->
                  LET r == IF v = "Create" THEN c.res ELSE i.res
                  IN IF r.inst # NoInst THEN r.inst ELSE held[v]]
    /\ UNCHANGED codecVars

Chained(slice) == Effect(slice, Returned(NoInst, NoErr, <<>>))

DoSetPayer ==
    \E payer \in Keys :
        Apply("SetPayer", <<payer>>,
              Chained(CreateSetPayer(create, payer)),
              Chained(CreateIdempotentSetPayer(idem, payer)))

DoSetAssociatedTokenAccount ==
    \E ata \in Keys :
        Apply("SetAssociatedTokenAccount", <<ata>>,
              Chained(CreateSetAssociatedTokenAccount(create, ata)),
              Chained(CreateIdempotentSetAssociatedTokenAccount(idem, ata)))

DoSetWallet ==
    \E wallet \in Keys :
        Apply("SetWallet", <<wallet>>,
              Chained(CreateSetWallet(create, wallet)),
              Chained(CreateIdempotentSetWallet(idem, wallet)))

DoSetMint ==
    \E mint \in Keys :
        Apply("SetMint", <<mint>>,
              Chained(CreateSetMint(create, mint)),
              Chained(CreateIdempotentSetMint(idem, mint)))

DoSetTokenProgramID ==
    \E tokenProgramID \in Keys :
        Apply("SetTokenProgramID", <<tokenProgramID>>,
              Chained(CreateSetTokenProgramID(create, tokenProgramID)),
              Chained(CreateIdempotentSetTokenProgramID(idem, tokenProgramID)))

DoBuild ==
    Apply("Build", <<>>, CreateBuild(create), CreateIdempotentBuild(idem))

DoValidate ==
    Apply("Validate", <<>>, CreateValidate(create), CreateIdempotentValidate(idem))

DoValidateAndBuild ==
    Apply("ValidateAndBuild", <<>>, CreateValidateAndBuild(create), CreateIdempotentValidateAndBuild(idem))

DoMarshalWithEncoder ==
    Apply("MarshalWithEncoder", <<>>, CreateMarshalWithEncoder(create), CreateIdempotentMarshalWithEncoder(idem))

Next ==
    \/ DoSetPayer
    \/ DoSetAssociatedTokenAccount
    \/ DoSetWallet
    \/ DoSetMint
    \/ DoSetTokenProgramID
    \/ DoBuild
    \/ DoValidate
    \/ DoValidateAndBuild
    \/ DoMarshalWithEncoder

Spec == Init /\ [][Next]_vars


\* ------------------------------------------------------------ codec runs
\* A codec run is about one record.  It starts from a buffer (pc = "bytes":
\* the buffer is decoded into a new record, which is then encoded) or from a
\* record (pc = "value": the record is encoded, and the bytes written are
\* decoded into a new record).
Ramp(n, from) == [i \in 1..n |-> from + i]

KeyChoices == {Zeros(32), Ramp(32, 0)}

\* low bytes of the presence flags, and the bytes of the one-byte fields
SmallBytes == 0..MaxSmall

FlagBytes == {<<b, 0, 0, 0>> : b \in SmallBytes} \cup {<<0, 0, 0, 1>>}

ByteChoices == SmallBytes \cup {255}

U64Bytes == {Zeros(8), <<255, 2, 3, 4, 5, 6, 7, 128>>}

U64Values == {Uint64(0), <<128, 7, 6, 5, 4, 3, 2, 255>>, Uint64(1)}

OptionalKeys == {NilPtr} \cup {ToPointer(k) : k \in KeyChoices}

OptionalU64s == {NilPtr} \cup {ToPointer(v) : v \in U64Values}

MintSize == 82

AccountSize == 165

MultisigSize == 3 + 32 * MAX_SIGNERS

SizeOf(k) == CASE k = "Mint" -> MintSize [] k = "Account" -> AccountSize [] OTHER -> MultisigSize

SignerBytes == [i \in 1..(32 * MAX_SIGNERS) |-> (7 * i) % 256]

MintBuffers ==
    {f1 \o k1 \o Ramp(8, 40) \o <<d>> \o <<b>> \o f2 \o k2 :
        f1 \in FlagBytes, k1 \in KeyChoices, d \in ByteChoices, b \in ByteChoices,
        f2 \in FlagBytes, k2 \in KeyChoices}

AccountBuffers ==
    {m \o Ramp(32, 100) \o Ramp(8, 50) \o f1 \o k1 \o <<st>> \o f2 \o n \o Ramp(8, 60) \o f3 \o k3 :
        m \in KeyChoices, f1 \in FlagBytes, k1 \in KeyChoices, st \in ByteChoices,
        f2 \in FlagBytes, n \in U64Bytes, f3 \in FlagBytes, k3 \in KeyChoices}

MultisigBuffers ==
    {<<m>> \o <<3>> \o <<b>> \o sg :
        m \in ByteChoices, b \in ByteChoices, sg \in {Zeros(32 * MAX_SIGNERS), SignerBytes}}

BuffersOf(k) ==
    CASE k = "Mint" -> MintBuffers [] k = "Account" -> AccountBuffers [] OTHER -> MultisigBuffers

\* the buffers that are cut short or extended: each optional field present
\* or absent, the other fields fixed
PresenceFlags == {<<0, 0, 0, 0>>, <<1, 0, 0, 0>>}

MintCutBases ==
    {f1 \o Ramp(32, 0) \o Ramp(8, 40) \o <<9>> \o <<1>> \o f2 \o Ramp(32, 0) :
        f1 \in PresenceFlags, f2 \in PresenceFlags}

AccountCutBases ==
    {Ramp(32, 0) \o Ramp(32, 100) \o Ramp(8, 50) \o f1 \o Ramp(32, 0) \o <<1>> \o f2
        \o Ramp(8, 70) \o Ramp(8, 60) \o f3 \o Ramp(32, 0) :
        f1 \in PresenceFlags, f2 \in PresenceFlags, f3 \in PresenceFlags}

MultisigCutBases == {<<2>> \o <<3>> \o <<1>> \o SignerBytes}

CutBases(k) ==
    CASE k = "Mint" -> MintCutBases [] k = "Account" -> AccountCutBases [] OTHER -> MultisigCutBases

MintValues ==
    {[MintAuthority |-> a, Supply |-> sp, Decimals |-> d, IsInitialized |-> b, FreezeAuthority |-> f] :
        a \in OptionalKeys, sp \in U64Values, d \in ByteChoices, b \in BOOLEAN, f \in OptionalKeys}

AccountValues ==
    {[Mint |-> m, Owner |-> Ramp(32, 100), Amount |-> Uint64(5), Delegate |-> dl, State |-> st,
      IsNative |-> n, DelegatedAmount |-> da, CloseAuthority |-> c] :
        m \in KeyChoices, dl \in OptionalKeys, st \in ByteChoices, n \in OptionalU64s,
        da \in {Uint64(0), Uint64(9)}, c \in OptionalKeys}

MultisigValues ==
    {[M |-> m, N |-> 3, IsInitialized |-> b, Signers |-> sg] :
        m \in ByteChoices, b \in BOOLEAN,
        sg \in {[i \in 1..MAX_SIGNERS |-> Zeros(32)], [i \in 1..MAX_SIGNERS |-> Ramp(32, 10 * i)]}}

ValuesOf(k) ==
    CASE k = "Mint" -> MintValues [] k = "Account" -> AccountValues [] OTHER -> MultisigValues

ZeroOf(k) == CASE k = "Mint" -> ZeroMint [] k = "Account" -> ZeroAccount [] OTHER -> ZeroMultisig

RecordKinds == {"Mint", "Account", "Multisig"}

InitCodec ==
    /\ create = NewCreateInstructionBuilder
    /\ idem = NewCreateIdempotentInstructionBuilder
    /\ call = [op |-> "NewInstructionBuilder", args |-> <<>>]
    /\ ret = [v \in Variants |-> Returned(NoInst, NoErr, <<>>)]
    /\ aborted = FALSE
    /\ held = [v \in Variants |-> NoInst]
    /\ kind \in RecordKinds
    /\ pos = 0
    /\ out = <<>>
    /\ cerr = NoErr
    /\ \/ /\ pc = "bytes"
          /\ data \in BuffersOf(kind)
          /\ rec = ZeroOf(kind)
          /\ orig = ZeroOf(kind)
       \/ /\ pc = "bytes"
          /\ \E b \in CutBases(kind), n \in 0..(SizeOf(kind) + MaxExtra) :
                data = [i \in 1..n |-> IF i <= Len(b) THEN b[i] ELSE 170]
          /\ rec = ZeroOf(kind)
          /\ orig = ZeroOf(kind)
       \/ /\ pc = "value"
          /\ data = <<>>
          /\ rec \in ValuesOf(kind)
          /\ orig = rec

\* x.UnmarshalWithDecoder(dec) on a new record x and a decoder over the
\* buffer given (pc = "bytes") or over the bytes just written (pc = "written")
Unmarshal(k, r, src) ==
    /\ kind = k
    /\ pc \in {"bytes", "written"}
    /\ data' = src
    /\ rec' = r.rec
    /\ pos' = r.pos
    /\ cerr' = r.err
    /\ pc' = IF pc = "bytes" THEN "decoded" ELSE "reread"
    /\ UNCHANGED <<kind, out, orig>>
    /\ UNCHANGED builderVars

Source == IF pc = "bytes" THEN data ELSE out

\* x.MarshalWithEncoder(enc) on the record held, into an empty sink
Marshal(k, bytes) ==
    /\ kind = k
    /\ pc = "value" \/ (pc = "decoded" /\ cerr = NoErr)
    /\ out' = bytes
    /\ pc' = IF pc = "value" THEN "written" ELSE "encoded"
    /\ UNCHANGED <<kind, data, pos, rec, cerr, orig>>
    /\ UNCHANGED builderVars

DoMintUnmarshal == Unmarshal("Mint", MintUnmarshalWithDecoder(ZeroMint, Source, 0), Source)

DoMintMarshal == Marshal("Mint", MintMarshalWithEncoder(rec))

DoAccountUnmarshal == Unmarshal("Account", AccountUnmarshalWithDecoder(ZeroAccount, Source, 0), Source)

DoAccountMarshal == Marshal("Account", AccountMarshalWithEncoder(rec))

DoMultisigUnmarshal == Unmarshal("Multisig", MultisigUnmarshalWithDecoder(ZeroMultisig, Source, 0), Source)

DoMultisigMarshal == Marshal("Multisig", MultisigMarshalWithEncoder(rec))

NextCodec ==
    \/ DoMintUnmarshal
    \/ DoMintMarshal
    \/ DoAccountUnmarshal
    \/ DoAccountMarshal
    \/ DoMultisigUnmarshal
    \/ DoMultisigMarshal

SpecCodec == InitCodec /\ [][NextCodec]_vars

CodecTypeOK == pc \in {"bytes", "value", "decoded", "encoded", "written", "reread"}

\* ------------------------------------------------------------- properties
\* the role list an instruction carries: Impl shares the builder's array
RoleList(inst) == IF inst.Impl = "Create" THEN create ELSE idem

Builder(v) == IF v = "Create" THEN create ELSE idem

Discriminant(v) == IF v = "Create" THEN Instruction_Create ELSE Instruction_CreateIdempotent

AllSet(slice) == \A i \in 0..6 : slice[i] # NilMeta

\* C1 (as claimed): Build() never fails: from every builder state reachable
\* through the constructor and the setters it returns a finished instruction
\* and never aborts, whatever slots are still unset.
C1_BuildNeverFails ==
    call.op = "Build" =>
        \A v \in Variants : ~ret[v].panic /\ ret[v].inst # NoInst

\* what Validate answers on slice s, per variant
ValidateOf(v, s) == IF v = "Create" THEN CreateValidate(s) ELSE CreateIdempotentValidate(s)

ValidateAndBuildOf(v, s) ==
    IF v = "Create" THEN CreateValidateAndBuild(s) ELSE CreateIdempotentValidateAndBuild(s)

\* s names slot i as its lowest-index unset slot
LowestUnset(s, i) == s[i] = NilMeta /\ \A j \in 0..6 : j < i => s[j] # NilMeta

\* the builder's slice with the slots of S made nil
Without(slice, S) == [i \in 0..6 |-> IF i \in S THEN NilMeta ELSE slice[i]]

NeedsDerivation(s) == s[1] = NilMeta \/ s[1].PublicKey = ZeroKey

\* C3: builder-side derivation is seed-order-exact: a Build() on a builder
\* whose slot 1 is unset or holds the zero key writes into slot 1 the address of
\* derive([wallet, tokenProgram, mint], ProgramID), writable and not signer.
C3_DerivationSeedOrder ==
    [][ (call'.op = "Build" /\ ~aborted' /\ NeedsDerivation(create) /\ NeedsDerivation(idem)) =>
            /\ create'[1] = [isNil |-> FALSE,
                             PublicKey |-> derive(<<create[2].PublicKey, create[5].PublicKey,
                                                    create[3].PublicKey>>, ProgramID).address,
                             IsWritable |-> TRUE, IsSigner |-> FALSE]
            /\ idem'[1] = [isNil |-> FALSE,
                           PublicKey |-> derive(<<idem[2].PublicKey, idem[5].PublicKey,
                                                  idem[3].PublicKey>>, ProgramID).address,
                           IsWritable |-> TRUE, IsSigner |-> FALSE] ]_vars

\* C3 witness: a Build() derived slot 1 from a wallet, a mint and a token
\* program that are three different keys.
C3_Witness ==
    /\ call.op = "Build"
    /\ ~aborted
    /\ create[1] # NilMeta /\ create[1].PublicKey >= 1000
    /\ create[2].PublicKey # create[3].PublicKey
    /\ create[3].PublicKey # create[5].PublicKey
    /\ create[2].PublicKey # create[5].PublicKey
    /\ idem[1] = create[1]

\* C4: whenever ValidateAndBuild() returns without error, the instruction it
\* returns carries 7 roles, all set, and its variant's discriminant; and
\* New...Instruction(A, B, C, D).ValidateAndBuild() succeeds with slot 0 = A
\* (writable, signer), slot 2 = B, slot 3 = C, slot 5 = D and slot 1 =
\* derive([B, D, C], ProgramID).
C4_ValidateAndBuildComplete ==
    /\ [](\A v \in Variants :
            (call.op = "ValidateAndBuild" /\ ~ret[v].panic /\ ret[v].err = NoErr) =>
                /\ ret[v].inst # NoInst
                /\ ret[v].inst.TypeID = Discriminant(v)
                /\ DOMAIN RoleList(ret[v].inst) = 0..6
                /\ AllSet(RoleList(ret[v].inst)))
    /\ [][ (call.op = "NewInstruction" /\ call'.op = "ValidateAndBuild") =>
              \A v \in Variants :
                 LET A == call.args[1]
                     B == call.args[2]
                     C == call.args[3]
                     D == call.args[4]
                     roles == RoleList(ret[v].inst)'
                 IN /\ ~ret'[v].panic
                    /\ ret'[v].err = NoErr
                    /\ ret'[v].inst # NoInst
                    /\ roles[0] = [isNil |-> FALSE, PublicKey |-> A, IsWritable |-> TRUE, IsSigner |-> TRUE]
                    /\ roles[2].PublicKey = B
                    /\ roles[3].PublicKey = C
                    /\ roles[5].PublicKey = D
                    /\ roles[1].PublicKey = derive(<<B, D, C>>, ProgramID).address ]_vars

\* C4 witness: ValidateAndBuild() returned an instruction and no error.
C4_Witness ==
    /\ call.op = "ValidateAndBuild"
    /\ \A v \in Variants : ~ret[v].panic /\ ret[v].err = NoErr /\ ret[v].inst # NoInst
    /\ create[2].PublicKey # create[3].PublicKey

\* C10: driven by the same calls, the Create and the CreateIdempotent
\* builder hold identical role lists after every step and report the same
\* outcome; the instructions they build differ only in the discriminant, and
\* both encode an empty parameter payload.
C10_IdempotentEquivalence ==
    /\ create = idem
    /\ ret["Create"].panic = ret["CreateIdempotent"].panic
    /\ ret["Create"].err = ret["CreateIdempotent"].err
    /\ ret["Create"].out = ret["CreateIdempotent"].out
    /\ (ret["Create"].inst = NoInst) = (ret["CreateIdempotent"].inst = NoInst)
    /\ ret["Create"].inst # NoInst =>
          /\ ret["Create"].inst.TypeID = Instruction_Create
          /\ ret["CreateIdempotent"].inst.TypeID = Instruction_CreateIdempotent
          /\ ret["Create"].inst.TypeID # ret["CreateIdempotent"].inst.TypeID
          /\ RoleList(ret["Create"].inst) = RoleList(ret["CreateIdempotent"].inst)
    /\ call.op = "MarshalWithEncoder" =>
          \A v \in Variants : ~ret[v].panic /\ ret[v].err = NoErr /\ ret[v].out = <<>>

\* C10 witness: both builders, payer and wallet set, built an instruction.
C10_Witness ==
    /\ call.op = "Build"
    /\ \A v \in Variants : ~ret[v].panic /\ ret[v].inst # NoInst
    /\ create[2] # NilMeta /\ create[0] # NilMeta

\* ------------------------------------------------- properties of the codec
\* The wire format of the records, from which the properties tell what a
\* decode and an encode should give.
Slice(b, off, n) == SubSeq(b, off + 1, off + n)

\* the optional fields of a record: field name, offset of the presence
\* flag, size of the payload slot
OptionalFields(k) ==
    CASE k = "Mint" -> {<<"MintAuthority", 0, 32>>, <<"FreezeAuthority", 46, 32>>}
      [] k = "Account" -> {<<"Delegate", 72, 32>>, <<"IsNative", 109, 8>>, <<"CloseAuthority", 129, 32>>}
      [] OTHER -> {}

\* the offsets of the bool fields
BoolOffsets(k) == CASE k = "Mint" -> {45} [] k = "Account" -> {} [] OTHER -> {2}

\* the sizes of the reads a decode makes, in order
ReadSizes(k) ==
    CASE k = "Mint" -> <<4, 32, 8, 1, 1, 4, 32>>
      [] k = "Account" -> <<32, 32, 8, 4, 32, 1, 4, 8, 8, 4, 32>>
      [] OTHER -> <<1, 1, 1>> \o [i \in 1..MAX_SIGNERS |-> 32]

\* the offset at which the read that needs byte n of the record starts
RECURSIVE StartOfRead(_, _, _, _)
StartOfRead(sizes, i, off, n) ==
    IF i > Len(sizes) \/ n < off + sizes[i] THEN off
    ELSE StartOfRead(sizes, i + 1, off + sizes[i], n)

Present(b, off) == Slice(b, off, 4) = <<1, 0, 0, 0>>

OptionalAt(b, off, n) ==
    IF Present(b, off)
    THEN ToPointer(IF n = 8 THEN Reverse(Slice(b, off + 4, n)) ELSE Slice(b, off + 4, n))
    ELSE NilPtr

\* the record the wire format says the bytes b hold
WireMint(b) ==
    [MintAuthority |-> OptionalAt(b, 0, 32), Supply |-> Reverse(Slice(b, 36, 8)),
     Decimals |-> b[45], IsInitialized |-> b[46] # 0, FreezeAuthority |-> OptionalAt(b, 46, 32)]

WireAccount(b) ==
    [Mint |-> Slice(b, 0, 32), Owner |-> Slice(b, 32, 32), Amount |-> Reverse(Slice(b, 64, 8)),
     Delegate |-> OptionalAt(b, 72, 32), State |-> b[109], IsNative |-> OptionalAt(b, 109, 8),
     DelegatedAmount |-> Reverse(Slice(b, 121, 8)), CloseAuthority |-> OptionalAt(b, 129, 32)]

\* b is the canonical form: every presence flag is 0 or 1, the slot of an
\* absent field is zero-filled, every bool byte is 0 or 1
Canonical(k, b) ==
    /\ \A f \in OptionalFields(k) :
          \/ Present(b, f[2])
          \/ Slice(b, f[2], 4 + f[3]) = Zeros(4 + f[3])
    /\ \A o \in BoolOffsets(k) : b[o + 1] \in {0, 1}

\* C5 (as claimed): for every buffer of exactly the record's size, encoding
\* the record decoded from it gives the same bytes.
C5_RoundTripEveryBuffer ==
    (pc = "encoded" /\ Len(data) = SizeOf(kind)) => out = data

\* C5 (amended): for every buffer of exactly the record's size that is in
\* canonical form, encoding the record decoded from it gives the same bytes.
C5_RoundTripCanonical ==
    (pc \in {"decoded", "encoded"} /\ Len(data) = SizeOf(kind) /\ Canonical(kind, data)) =>
        /\ cerr = NoErr
        /\ pc = "encoded" => out = data

\* C5 witness: a canonical Account buffer with a present and an absent
\* optional field went through decode and encode.
C5_Witness ==
    /\ pc = "encoded"
    /\ kind = "Account"
    /\ Len(data) = AccountSize
    /\ Canonical(kind, data)
    /\ Present(data, 72) /\ ~Present(data, 109) /\ Present(data, 129)
    /\ out = data

\* C6: decoding a Mint or an Account, an optional field whose presence flag
\* is not 1 decodes as absent without error, and its payload slot is consumed
\* all the same: every field holds what the wire format puts at its fixed
\* offset and the cursor ends at the record's size.
C6_PresenceFlagLegacy ==
    (/\ pc = "decoded"
     /\ kind \in {"Mint", "Account"}
     /\ Len(data) >= SizeOf(kind)
     /\ \E f \in OptionalFields(kind) : ~Present(data, f[2])) =>
        /\ cerr = NoErr
        /\ \A f \in OptionalFields(kind) : ~Present(data, f[2]) => rec[f[1]] = NilPtr
        /\ rec = (IF kind = "Mint" THEN WireMint(data) ELSE WireAccount(data))
        /\ pos = SizeOf(kind)

\* C6 witness: a Mint whose first flag is 2 and whose second optional field
\* is present was decoded.
C6_Witness ==
    /\ pc = "decoded"
    /\ kind = "Mint"
    /\ Len(data) = MintSize
    /\ Slice(data, 0, 4) = <<2, 0, 0, 0>>
    /\ Slice(data, 4, 32) # Zeros(32)
    /\ rec.MintAuthority = NilPtr
    /\ rec.FreezeAuthority = ToPointer(Ramp(32, 0))

\* C7: the encoder writes exactly 82 bytes for every Mint and 165 for every
\* Account, whichever optional fields are present; an absent optional field
\* is written as flag 0 followed by a zero-filled slot of the payload's size.
C7_FixedSize ==
    (pc \in {"written", "encoded"} /\ kind \in {"Mint", "Account"}) =>
        /\ kind = "Mint" => Len(out) = 82
        /\ kind = "Account" => Len(out) = 165
        /\ \A f \in OptionalFields(kind) :
              rec[f[1]] = NilPtr => Slice(out, f[2], 4 + f[3]) = Zeros(4 + f[3])

\* C7 witness: an Account with one optional field present and two absent
\* was encoded.
C7_Witness ==
    /\ pc = "written"
    /\ kind = "Account"
    /\ rec.Delegate = NilPtr /\ rec.IsNative # NilPtr /\ rec.CloseAuthority = NilPtr
    /\ Len(out) = 165

\* C8: decoding the bytes written for a Mint or an Account gives the record
\* back, each optional key and optional u64 included, absent or present with
\* any payload, the all-zero one too.
C8_RoundTripFromValue ==
    (pc = "reread" /\ kind \in {"Mint", "Account"}) =>
        /\ cerr = NoErr
        /\ rec = orig
        /\ \A f \in OptionalFields(kind) : rec[f[1]] = orig[f[1]]

\* C8 witness: an Account whose IsNative is present with value 0, whose
\* Delegate is present with the zero key and whose CloseAuthority is absent
\* was encoded and decoded.
C8_Witness ==
    /\ pc = "reread"
    /\ kind = "Account"
    /\ orig.IsNative = ToPointer(Uint64(0))
    /\ orig.Delegate = ToPointer(Zeros(32))
    /\ orig.CloseAuthority = NilPtr

\* C9: decoding from a buffer shorter than the record's size returns the
\* UnexpectedEOF of the read that ran out of bytes; decoding from a longer
\* buffer succeeds and leaves the trailing bytes unconsumed.
C9_EOF ==
    pc = "decoded" =>
        /\ Len(data) < SizeOf(kind) =>
              /\ cerr # NoErr
              /\ cerr.kind = "UnexpectedEOF"
              /\ kind \in {"Mint", "Account"} =>
                    /\ cerr.at = StartOfRead(ReadSizes(kind), 1, 0, Len(data))
                    /\ pos = cerr.at
        /\ Len(data) >= SizeOf(kind) =>
              /\ cerr = NoErr
              /\ pos = SizeOf(kind)

\* C9 witness: an Account buffer one byte short was decoded.
C9_Witness ==
    /\ pc = "decoded"
    /\ kind = "Account"
    /\ Len(data) = AccountSize - 1
    /\ cerr # NoErr

\* a buffer with trailing bytes was decoded
C9_WitnessTrailing ==
    /\ pc = "decoded"
    /\ Len(data) > SizeOf(kind)
    /\ cerr = NoErr

\* the role list the instruction inst carries after the step: Impl still
\* shares its builder's array
RoleListAfter(inst) == IF inst.Impl = "Create" THEN create' ELSE idem'

\* C11 (as claimed): Build() is a one-way transition: no call made on the
\* builder after an instruction was returned changes the role list that
\* instruction carries.
C11_BuiltIsFinal ==
    [][ \A v \in Variants :
            held[v] # NoInst => RoleListAfter(held[v]) = RoleList(held[v]) ]_vars

BuilderAfter(v) == IF v = "Create" THEN create' ELSE idem'

\* the address the derivation gives for the wallet, token program and mint
\* that the slice s holds
DerivedFor(s) == derive(<<s[2].PublicKey, s[5].PublicKey, s[3].PublicKey>>, ProgramID).address

\* C12: slot 1 is derived at most once: a Build(), Validate() or
\* ValidateAndBuild() on a builder whose slot 1 holds a non-zero address
\* leaves slot 1 as it is, whatever the wallet, mint and token program are by
\* then; one that derives stores the address in the builder's own role list;
\* and none of them changes another slot.
C12_DerivedAtMostOnce ==
    [][ call'.op \in {"Build", "Validate", "ValidateAndBuild"} =>
          \A v \in Variants :
             /\ \A i \in (0..6) \ {1} : BuilderAfter(v)[i] = Builder(v)[i]
             /\ ~NeedsDerivation(Builder(v)) => BuilderAfter(v)[1] = Builder(v)[1]
             /\ (NeedsDerivation(Builder(v)) /\ ~aborted') =>
                   BuilderAfter(v)[1] = WRITE(Meta(DerivedFor(Builder(v)))) ]_vars

\* C12 witness: a Build() returned on builders whose slot 1 holds an address
\* derived earlier, from other inputs than the ones they hold now.
C12_Witness ==
    /\ call.op = "Build"
    /\ ~aborted
    /\ \A v \in Variants :
          /\ Builder(v)[1] # NilMeta
          /\ Builder(v)[1].PublicKey >= 1000
          /\ Builder(v)[2] # NilMeta /\ Builder(v)[3] # NilMeta
          /\ Builder(v)[1].PublicKey # DerivedFor(Builder(v))

====
